---- MODULE Spec2Model ----
(* State-machine model of src/main.py: startup (load_config,               *)
(* setup_rag_system), the interactive question/answer loop of main() and    *)
(* its exception handlers.  External collaborators (file system, text       *)
(* splitter, embedding provider, chat model, stdin) are opaque calls whose  *)
(* outcome - a value or a raised exception - is chosen nondeterministically.*)
EXTENDS Integers, Sequences, FiniteSets, TLC

\* ---------------------------------------------------------------- bounds
MaxTurns == 3          \* number of input() calls explored per session

\* ------------------------------------------------------------ characters
Whitespace == {" ", "\t"}
UpperAlpha == <<"A","B","C","D","E","F","G","H","I","J","K","L","M",
                "N","O","P","Q","R","S","T","U","V","W","X","Y","Z">>
LowerAlpha == <<"a","b","c","d","e","f","g","h","i","j","k","l","m",
                "n","o","p","q","r","s","t","u","v","w","x","y","z">>

\* str.lower() on one character
LowerChar(c) ==
    IF \E i \in 1..Len(UpperAlpha) : UpperAlpha[i] = c
    THEN LowerAlpha[CHOOSE i \in 1..Len(UpperAlpha) : UpperAlpha[i] = c]
    ELSE c

\* str.lower(): line 90, query.lower()
Lower(s) == [i \in 1..Len(s) |-> LowerChar(s[i])]

RECURSIVE LStrip(_)
LStrip(s) == IF s # <<>> /\ Head(s) \in Whitespace THEN LStrip(Tail(s)) ELSE s

RECURSIVE RStrip(_)
RStrip(s) == IF s # <<>> /\ s[Len(s)] \in Whitespace
             THEN RStrip(SubSeq(s, 1, Len(s) - 1)) ELSE s

Strip_Identity(s) == s
\* str.strip(): line 87, input(...).strip()
Strip(s) == RStrip(LStrip(s))

\* the list literal of line 90
ExitKeywords == { <<"q","u","i","t">>, <<"e","x","i","t">>,
                  <<"k","e","l","u","a","r">> }

IsExitCommand_CaseSensitive(q) == q \in ExitKeywords
\* line 90: query.lower() in ['quit', 'exit', 'keluar']
IsExitCommand(q) == Lower(q) \in ExitKeywords

\* line 95: not query
IsEmptyQuery(q) == q = <<>>

\* lines the user may type at the prompt
InputLines ==
    { <<>>, <<" ">>, <<" ", "\t">>,
      <<"q","u","i","t">>, <<"Q","U","I","T">>, <<"E","x","i","t">>,
      <<"k","e","l","u","a","r">>, <<" ","K","e","L","u","A","r","\t">>,
      <<"h","i">>, <<" ","H","i"," ">>, <<"q","u","i","t"," ","x">> }

\* ------------------------------------------------------------ exceptions
\* Python class hierarchy of the exception classes that matter to the
\* handlers of main(): KeyboardInterrupt derives from BaseException only.
IsInstance(kind, cls) ==
    \/ kind = cls
    \/ cls = "Exception" /\ kind \in {"FileNotFoundError", "JSONDecodeError", "EOFError"}

\* what an opaque library / provider / file call may raise
CallErrors == {"FileNotFoundError", "JSONDecodeError", "Exception"}

\* str(e)
StrOf(kind) == IF kind = "EOFError" THEN "EOF when reading a line" ELSE kind

NoExc == [kind |-> "none", origin |-> "none"]

\* --------------------------------------------------------------- output
Out(m, a) == [msg |-> m, arg |-> a]
MsgBanner         == Out("[Bot] Chatbot RAG - Sesi Tanya Jawab", "")
MsgRuleEq         == Out("========", "")
MsgConfigOk       == Out("[OK] Konfigurasi berhasil dimuat", "")
MsgKfWarning      == Out("Warning: {} tidak ditemukan. Chatbot akan bekerja tanpa knowledge base.", "knowledge_file")
MsgRagOk          == Out("[OK] RAG system berhasil diinisialisasi", "")
MsgRagUnavailable == Out("[Warning] RAG system tidak tersedia, menggunakan LLM saja", "")
MsgInstructions   == Out("Ketik pertanyaan Anda (ketik 'quit' atau 'exit' untuk keluar):", "")
MsgRuleDash       == Out("--------", "")
MsgPrompt         == Out("\n[Anda]: ", "")
MsgBye            == Out("\n[Bye] Terima kasih! Sampai jumpa!", "")
MsgBot(r)         == Out("\n[Bot]: {}", r)
MsgTurnError(t)   == Out("\n[Error]: {}", t)
MsgConfigNotFound == Out("[Error] config.json tidak ditemukan!", "")
MsgConfigInvalid  == Out("[Error] Format config.json tidak valid!", "")
MsgTopError(t)    == Out("[Error]: {}", t)

VARIABLES
    pc,        \* position in main() / setup_rag_system()
    config,    \* "None" until load_config returned, then "Config"
    kfExists,  \* what os.path.exists(knowledge_file) answered: "unknown"/"yes"/"no"
    kfRead,    \* the knowledge file has been opened and read
    qa,        \* "None" or "RetrievalQA"
    llm,       \* "None" or "ChatOpenAI"
    done,      \* startup steps that completed without raising
    line,      \* raw text returned by the last input()
    query,     \* the local variable query
    result,    \* the local variable result
    err,       \* exception caught by the per-turn handler ("none" if none)
    exc,       \* exception that left the outer try body (kind, origin)
    out,       \* everything printed so far, prompts included
    calls,     \* Answerer calls made so far: [variant, arg]
    inputs     \* raw lines read so far

vars == <<pc, config, kfExists, kfRead, qa, llm, done, line,
          query, result, err, exc, out, calls, inputs>>

Init ==
    /\ pc = "main"
    /\ config = "None"
    /\ kfExists = "unknown"
    /\ kfRead = FALSE
    /\ qa = "None"
    /\ llm = "None"
    /\ done = {}
    /\ line = <<>>
    /\ query = <<>>
    /\ result = "none"
    /\ err = "none"
    /\ exc = NoExc
    /\ out = <<>>
    /\ calls = <<>>
    /\ inputs = <<>>

\* an exception leaves the body of the outer try (line 63)
Raise(kind, origin) ==
    /\ exc' = [kind |-> kind, origin |-> origin]
    /\ pc' = "raised"

Emit(m) == out' = Append(out, m)

UseRag_CheckLlm(x) == llm # "None"
UseRag_FirstCallOnly(x) == x # "None" /\ calls = <<>>
\* lines 71 and 100: truthiness of qa
UseRag(x) == x # "None"

TurnCatches_FileErrorsOnly(kind) == IsInstance(kind, "FileNotFoundError")
\* line 109: except Exception as e
TurnCatches(kind) == IsInstance(kind, "Exception")

AnswererInput_WithHistory(q) ==
    IF calls = <<>> THEN q ELSE calls[Len(calls)].arg \o <<" ">> \o q
\* lines 102 and 105: the argument handed to qa.run / llm.predict
AnswererInput(q) == q

\* lines 60-61
Start ==
    /\ pc = "main"
    /\ out' = out \o <<MsgBanner, MsgRuleEq>>
    /\ pc' = "load_config"
    /\ UNCHANGED <<config, kfExists, kfRead, qa, llm, done, line, query,
                   result, err, exc, calls, inputs>>

\* lines 10-13 and 65-66.  FileNotFoundError: config.json is missing;
\* JSONDecodeError: json.load rejects the text; Exception: any other
\* failure of open/read (permissions, undecodable bytes).
LoadConfig ==
    /\ pc = "load_config"
    /\ \/ /\ config' = "Config"
          /\ Emit(MsgConfigOk)
          /\ done' = done \cup {"load_config"}
          /\ pc' = "setup_exists"
          /\ UNCHANGED exc
       \/ /\ \E k \in CallErrors : Raise(k, "load_config")
          /\ UNCHANGED <<config, out, done>>
    /\ UNCHANGED <<kfExists, kfRead, qa, llm, line, query, result, err,
                   calls, inputs>>

\* lines 18-21: key lookup, os.path.exists, early return (None, None)
SetupExists ==
    /\ pc = "setup_exists"
    /\ \/ /\ Raise("Exception", "lookup")        \* KeyError / TypeError
          /\ UNCHANGED <<kfExists, out, qa, llm>>
       \/ /\ kfExists' = "no"
          /\ Emit(MsgKfWarning)
          /\ qa' = "None"
          /\ llm' = "None"
          /\ pc' = "setup_returned"
          /\ UNCHANGED exc
       \/ /\ kfExists' = "yes"
          /\ pc' = "setup_open"
          /\ UNCHANGED <<out, qa, llm, exc>>
    /\ UNCHANGED <<config, kfRead, done, line, query, result, err, calls, inputs>>

\* one stage of setup_rag_system that either completes or raises
Stage(at, name, next) ==
    /\ pc = at
    /\ \/ /\ done' = done \cup {name}
          /\ pc' = next
          /\ UNCHANGED exc
       \/ /\ \E k \in CallErrors : Raise(k, name)
          /\ UNCHANGED done

\* lines 23-24: the file may have vanished since the exists() check
SetupOpen ==
    /\ Stage("setup_open", "open", "setup_split")
    /\ kfRead' = (pc' = "setup_split")
    /\ UNCHANGED <<config, kfExists, qa, llm, line, query, result, err,
                   out, calls, inputs>>

\* lines 27-31
SetupSplit ==
    /\ Stage("setup_split", "split", "setup_embed")
    /\ UNCHANGED <<config, kfExists, kfRead, qa, llm, line, query, result,
                   err, out, calls, inputs>>

SetupEmbed_Degrade ==
    /\ pc = "setup_embed"
    /\ \/ /\ done' = done \cup {"embed"}
          /\ pc' = "setup_retriever"
          /\ UNCHANGED <<qa, llm, out>>
       \/ /\ Emit(MsgKfWarning)
          /\ qa' = "None"
          /\ llm' = "None"
          /\ pc' = "setup_returned"
          /\ UNCHANGED done
    /\ UNCHANGED <<config, kfExists, kfRead, line, query, result, err, exc,
                   calls, inputs>>
\* lines 34-38
SetupEmbed ==
    /\ Stage("setup_embed", "embed", "setup_retriever")
    /\ UNCHANGED <<config, kfExists, kfRead, qa, llm, line, query, result,
                   err, out, calls, inputs>>

\* lines 41-44
SetupRetriever ==
    /\ Stage("setup_retriever", "retriever", "setup_llm")
    /\ UNCHANGED <<config, kfExists, kfRead, qa, llm, line, query, result,
                   err, out, calls, inputs>>

\* lines 47-51
SetupLLM ==
    /\ Stage("setup_llm", "llm", "setup_chain")
    /\ UNCHANGED <<config, kfExists, kfRead, qa, llm, line, query, result,
                   err, out, calls, inputs>>

\* lines 54-56 and the assignment of line 69
SetupChain ==
    /\ Stage("setup_chain", "chain", "setup_returned")
    /\ IF pc' = "setup_returned"
       THEN qa' = "RetrievalQA" /\ llm' = "ChatOpenAI"
       ELSE UNCHANGED <<qa, llm>>
    /\ UNCHANGED <<config, kfExists, kfRead, line, query, result, err, out,
                   calls, inputs>>

\* lines 71-80
CheckRag ==
    /\ pc = "setup_returned"
    /\ IF UseRag(qa)
       THEN /\ Emit(MsgRagOk)
            /\ pc' = "instructions"
            /\ UNCHANGED <<llm, done, exc>>
       ELSE /\ Emit(MsgRagUnavailable)
            /\ \/ /\ llm' = "ChatOpenAI"
                  /\ done' = done \cup {"main_llm"}
                  /\ pc' = "instructions"
                  /\ UNCHANGED exc
               \/ /\ \E k \in CallErrors : Raise(k, "main_llm")
                  /\ UNCHANGED <<llm, done>>
    /\ UNCHANGED <<config, kfExists, kfRead, qa, line, query, result, err,
                   calls, inputs>>

\* lines 82-83
PrintInstructions ==
    /\ pc = "instructions"
    /\ out' = out \o <<MsgInstructions, MsgRuleDash>>
    /\ pc' = "prompt"
    /\ UNCHANGED <<config, kfExists, kfRead, qa, llm, done, line, query,
                   result, err, exc, calls, inputs>>

\* line 87: input() writes the prompt, then returns a line, or raises
\* EOFError at end of stream, or KeyboardInterrupt on Ctrl-C
ReadInput ==
    /\ pc = "prompt"
    /\ Emit(MsgPrompt)
    /\ \/ /\ Len(inputs) < MaxTurns
          /\ \E l \in InputLines :
                /\ line' = l
                /\ query' = Strip(l)
                /\ inputs' = Append(inputs, l)
          /\ pc' = "check"
          /\ UNCHANGED exc
       \/ /\ \E k \in {"EOFError", "KeyboardInterrupt"} : Raise(k, "input")
          /\ UNCHANGED <<line, query, inputs>>
    /\ UNCHANGED <<config, kfExists, kfRead, qa, llm, done, result, err, calls>>

\* lines 90-96
CheckQuery ==
    /\ pc = "check"
    /\ IF IsExitCommand(query)
       THEN Emit(MsgBye) /\ pc' = "returned"
       ELSE IF IsEmptyQuery(query)
            THEN pc' = "prompt" /\ UNCHANGED out
            ELSE pc' = "answer" /\ UNCHANGED out
    /\ UNCHANGED <<config, kfExists, kfRead, qa, llm, done, line, query,
                   result, err, exc, calls, inputs>>

\* lines 98-105 and the dispatch of line 109
CallAnswerer ==
    /\ pc = "answer"
    /\ calls' = Append(calls, [variant |-> IF UseRag(qa) THEN "rag" ELSE "plain",
                               arg |-> AnswererInput(query)])
    /\ \/ /\ result' = "answer"
          /\ pc' = "print_bot"
          /\ UNCHANGED <<err, exc>>
       \/ \E k \in CallErrors :
             IF TurnCatches(k)
             THEN err' = k /\ pc' = "print_error" /\ UNCHANGED <<result, exc>>
             ELSE Raise(k, "answer") /\ UNCHANGED <<result, err>>
    /\ UNCHANGED <<config, kfExists, kfRead, qa, llm, done, line, query,
                   out, inputs>>

\* line 107
PrintBot ==
    /\ pc = "print_bot"
    /\ Emit(MsgBot(result))
    /\ pc' = "prompt"
    /\ UNCHANGED <<config, kfExists, kfRead, qa, llm, done, line, query,
                   result, err, exc, calls, inputs>>

\* line 110
PrintTurnError ==
    /\ pc = "print_error"
    /\ Emit(MsgTurnError(StrOf(err)))
    /\ err' = "none"
    /\ pc' = "prompt"
    /\ UNCHANGED <<config, kfExists, kfRead, qa, llm, done, line, query,
                   result, exc, calls, inputs>>

TopCatches_NoGeneric(kind) ==
    IsInstance(kind, "FileNotFoundError") \/ IsInstance(kind, "JSONDecodeError")
\* lines 112-116: the except clauses of the outer try, taken together
TopCatches(kind) ==
    \/ IsInstance(kind, "FileNotFoundError")
    \/ IsInstance(kind, "JSONDecodeError")
    \/ IsInstance(kind, "Exception")

HandlerMsg_NoJsonClause(kind) ==
    IF IsInstance(kind, "FileNotFoundError") THEN MsgConfigNotFound
    ELSE MsgTopError(StrOf(kind))
\* lines 112-117: the first matching except clause prints its message
HandlerMsg(kind) ==
    IF IsInstance(kind, "FileNotFoundError") THEN MsgConfigNotFound
    ELSE IF IsInstance(kind, "JSONDecodeError") THEN MsgConfigInvalid
    ELSE MsgTopError(StrOf(kind))

\* lines 112-117; an exception no clause matches leaves main() uncaught
TopHandler ==
    /\ pc = "raised"
    /\ IF TopCatches(exc.kind)
       THEN Emit(HandlerMsg(exc.kind)) /\ pc' = "returned"
       ELSE pc' = "crashed" /\ UNCHANGED out
    /\ UNCHANGED <<config, kfExists, kfRead, qa, llm, done, line, query,
                   result, err, exc, calls, inputs>>

Next ==
    \/ Start
    \/ LoadConfig
    \/ SetupExists
    \/ SetupOpen
    \/ SetupSplit
    \/ SetupEmbed
    \/ SetupRetriever
    \/ SetupLLM
    \/ SetupChain
    \/ CheckRag
    \/ PrintInstructions
    \/ ReadInput
    \/ CheckQuery
    \/ CallAnswerer
    \/ PrintBot
    \/ PrintTurnError
    \/ TopHandler

Spec == Init /\ [][Next]_vars

TypeOK ==
    /\ pc \in {"main", "load_config", "setup_exists", "setup_open", "setup_split",
               "setup_embed", "setup_retriever", "setup_llm", "setup_chain",
               "setup_returned", "instructions", "prompt", "check", "answer",
               "print_bot", "print_error", "raised", "returned", "crashed"}
    /\ qa \in {"None", "RetrievalQA"}
    /\ llm \in {"None", "ChatOpenAI"}
    /\ Len(inputs) <= MaxTurns

\* ------------------------------------------------------------------------
\* Properties.  The classification of the sample input lines below is
\* written out by hand, independently of Strip / Lower / IsExitCommand.
BlankLines == { <<>>, <<" ">>, <<" ", "\t">> }
ExitLines  == { <<"q","u","i","t">>, <<"Q","U","I","T">>, <<"E","x","i","t">>,
                <<"k","e","l","u","a","r">>, <<" ","K","e","L","u","A","r","\t">> }
ExpectedQuery ==
    (<<"h","i">> :> <<"h","i">>)
    @@ (<<" ","H","i"," ">> :> <<"H","i">>)
    @@ (<<"q","u","i","t"," ","x">> :> <<"q","u","i","t"," ","x">>)
IsQuestion(l) == l \in DOMAIN ExpectedQuery
Questions == SelectSeq(inputs, IsQuestion)

Range(f) == { f[i] : i \in DOMAIN f }
Last(sq) == sq[Len(sq)]
IsTurnError(m) == m.msg = "\n[Error]: {}"
IsBotReply(m)  == m.msg = "\n[Bot]: {}"
IsOutcome(m)   == IsTurnError(m) \/ IsBotReply(m)
TurnErrors == SelectSeq(out, IsTurnError)
Outcomes   == SelectSeq(out, IsOutcome)
Prompted   == MsgPrompt \in Range(out)
SetupStages == {"open", "split", "embed", "retriever", "llm", "chain"}
InLoop == pc \in {"prompt", "check", "answer", "print_bot", "print_error"}

\* C1: an error raised by the Answerer call (RAG or plain) is caught by the
\* per-turn handler: it never reaches the top-level handler, its message is
\* printed as a turn error, and the loop is back at the prompt afterwards,
\* however many queries failed before.
C1_TurnErrorsStayInLoop ==
    /\ [](exc.origin # "answer")
    /\ [][pc = "answer" /\ pc' # "print_bot"
            => pc' = "print_error" /\ err' \in CallErrors /\ out' = out]_vars
    /\ [][pc = "print_error"
            => pc' = "prompt" /\ out' = Append(out, MsgTurnError(StrOf(err)))]_vars

C1_Witness ==
    /\ pc = "prompt"
    /\ qa = "RetrievalQA"
    /\ Len(calls) = 2
    /\ Len(TurnErrors) = 2

\* C2: when the knowledge file does not exist, setup warns and returns
\* (None, None); the file is never read and every Answerer call of the
\* session goes to the plain model, never to the RAG chain.
C2_AbsentFileMeansPlainOnly ==
    kfExists = "no" =>
        /\ MsgKfWarning \in Range(out)
        /\ qa = "None"
        /\ pc = "setup_returned" => llm = "None"
        /\ ~kfRead
        /\ done \cap SetupStages = {}
        /\ \A i \in 1..Len(calls) : calls[i].variant = "plain"

C2_Witness ==
    /\ kfExists = "no"
    /\ pc = "prompt"
    /\ Len(calls) >= 1

\* C3: a line that is an exit keyword in any letter casing, possibly
\* surrounded by whitespace, ends the loop: the farewell is printed, main
\* returns, and the line is never handed to the Answerer.
C3_ExitKeywordsAnyCase ==
    /\ [](\A i \in 1..Len(inputs) :
            inputs[i] \in ExitLines => i = Len(inputs) /\ pc \in {"check", "returned"})
    /\ [][pc = "check" /\ line \in ExitLines
            => pc' = "returned" /\ calls' = calls /\ out' = Append(out, MsgBye)]_vars

C3_Witness ==
    /\ pc = "returned"
    /\ line = <<"Q","U","I","T">>
    /\ Last(out) = MsgBye
    /\ Len(calls) >= 1

\* C4: an empty or whitespace-only line makes no Answerer call and prints
\* nothing; the loop goes straight back to the prompt.
C4_BlankInputIgnored ==
    [][pc = "check" /\ line \in BlankLines
         => pc' = "prompt" /\ calls' = calls /\ out' = out /\ exc' = exc]_vars

C4_Witness ==
    /\ pc = "prompt"
    /\ inputs # <<>>
    /\ Last(inputs) = <<" ", "\t">>
    /\ Last(out) = MsgPrompt

\* C5: the Answerer variant is fixed by the outcome of setup: every call of
\* a session goes to the RAG chain if setup_rag_system completed all its
\* stages (file present, chain built) and to the plain model otherwise.
C5_VariantFixedAtStartup ==
    /\ qa = "RetrievalQA" <=> "chain" \in done
    /\ "chain" \in done => SetupStages \subseteq done /\ kfExists = "yes"
    /\ \A i \in 1..Len(calls) :
          calls[i].variant = IF "chain" \in done THEN "rag" ELSE "plain"

C5_Witness ==
    /\ qa = "RetrievalQA"
    /\ Len(calls) >= 2
    /\ Len(TurnErrors) >= 1
    /\ \E m \in Range(out) : IsBotReply(m)

\* C6: when load_config fails because config.json is missing or is rejected
\* by the JSON parser, main prints the fixed message for that case and
\* returns: no prompt, no knowledge-file access, no Answerer call.
C6_ConfigErrorsFatal ==
    (exc.origin = "load_config" /\ exc.kind \in {"FileNotFoundError", "JSONDecodeError"}) =>
        /\ pc \in {"raised", "returned"}
        /\ ~Prompted
        /\ kfExists = "unknown"
        /\ ~kfRead
        /\ calls = <<>>
        /\ pc = "returned" =>
              out = <<MsgBanner, MsgRuleEq,
                      IF exc.kind = "FileNotFoundError"
                      THEN MsgConfigNotFound ELSE MsgConfigInvalid>>

C6_Witness ==
    /\ pc = "returned"
    /\ exc = [kind |-> "JSONDecodeError", origin |-> "load_config"]

\* C7: end of input at the prompt ends the session on the handled path: the
\* top-level handler prints the error, main returns (it does not crash),
\* and no prompt or Answerer call follows.
C7_EndOfInputTerminates ==
    /\ [](exc.kind = "EOFError" =>
            /\ pc \in {"raised", "returned"}
            /\ Last(out) = IF pc = "raised" THEN MsgPrompt
                           ELSE MsgTopError("EOF when reading a line"))
    /\ [][exc.kind = "EOFError" => pc' = "returned" /\ calls' = calls]_vars

C7_Witness ==
    /\ pc = "returned"
    /\ exc.kind = "EOFError"
    /\ Len(calls) >= 1

\* C8: a failure in a setup stage after the knowledge file was found is
\* fatal: a top-level error line is printed (the error's own text for an
\* ordinary exception), main returns, the loop is never entered and no
\* plain model is built; the plain variant is used only if the file is absent.
C8_SetupFailuresFatal ==
    /\ exc.origin \in SetupStages =>
          /\ kfExists = "yes"
          /\ pc \in {"raised", "returned"}
          /\ ~Prompted
          /\ calls = <<>>
          /\ MsgRagUnavailable \notin Range(out)
          /\ "main_llm" \notin done
          /\ pc = "returned" =>
                /\ Last(out) \in {MsgConfigNotFound, MsgConfigInvalid,
                                  MsgTopError(StrOf(exc.kind))}
                /\ exc.kind = "Exception" => Last(out) = MsgTopError("Exception")
    /\ MsgRagUnavailable \in Range(out) => kfExists = "no"
    /\ (InLoop /\ kfExists = "yes") => qa = "RetrievalQA" /\ SetupStages \subseteq done

C8_Witness ==
    /\ pc = "returned"
    /\ exc = [kind |-> "Exception", origin |-> "embed"]

\* C9: every question line (non-empty, not an exit keyword) leads to exactly
\* one Answerer call whose argument is that line trimmed and nothing else,
\* and to exactly one printed outcome, bot reply or turn error, before the
\* next prompt; no other line leads to a call or an outcome.
C9_OneCallOneOutcomePerQuestion ==
    /\ Len(calls) = Len(Questions)
                    - (IF pc \in {"check", "answer"} /\ IsQuestion(line) THEN 1 ELSE 0)
    /\ \A i \in 1..Len(calls) : calls[i].arg = ExpectedQuery[Questions[i]]
    /\ Len(Outcomes) = Len(calls)
                       - (IF pc \in {"print_bot", "print_error"} THEN 1 ELSE 0)
    /\ \A j \in 1..Len(out) : IsOutcome(out[j]) => j > 1 /\ out[j-1] = MsgPrompt
    /\ (pc = "prompt" /\ inputs # <<>>) =>
          IF IsQuestion(Last(inputs)) THEN IsOutcome(Last(out))
          ELSE Last(out) = MsgPrompt

C9_Witness ==
    /\ pc = "prompt"
    /\ Len(calls) = 2
    /\ calls[1].arg = <<"q","u","i","t"," ","x">>
    /\ calls[2].arg = <<"H","i">>
    /\ IsBotReply(Last(out))

\* C10: the message "[Error] config.json tidak ditemukan!" is printed only
\* when load_config failed because config.json is missing.
C10_NotFoundMessageOnlyForConfig ==
    MsgConfigNotFound \in Range(out) =>
        exc = [kind |-> "FileNotFoundError", origin |-> "load_config"]
====
